---- MODULE Spec2Model ----
(***************************************************************************)
(* Task-management backend: the auth handlers (src/api/auth.py), the task  *)
(* handlers (src/api/task.py) and the two tables they work on              *)
(* (src/api/db.py).                                                         *)
(*                                                                         *)
(* The store is the pair of tables users / tasks with their id sequences.  *)
(* A handler is an operator from its input and the store to a response and *)
(* a new store; the action of the same name applies it and keeps the      *)
(* status code and detail of the response in resp (the body is what the    *)
(* operator gives).  signup is split at its await between the lookup and   *)
(* the commit, so that two requests can pass the lookup with the same      *)
(* email; every other handler runs as one transaction.  SpecAuth runs the  *)
(* auth handlers with concurrent signups; Spec runs the task handlers over *)
(* the users that signups create.                                          *)
(*                                                                         *)
(* An Optional value is None (the empty tuple) or Some(v) (a 1-tuple).     *)
(* A str the code slices or parses (the bearer token) is a sequence of     *)
(* one-character strings.                                                  *)
(***************************************************************************)
EXTENDS Integers, Sequences, FiniteSets, TLC

VARIABLES
    users,       \* table users: set of rows
    nextUserId,  \* next value of the users.id sequence
    tasks,       \* table tasks: set of rows
    nextTaskId,  \* next value of the tasks.id sequence
    now,         \* the database clock, func.now()
    pc,          \* per request slot: the signup between its lookup and its commit
    resp,        \* the last completed call: handler, status code, detail
    signedUp,    \* history: the email and password of every signup that returned 201
    deleted      \* history: ids of the tasks a DeleteTask call removed

vars == <<users, nextUserId, tasks, nextTaskId, now, pc, resp, signedUp, deleted>>

None == <<>>
Some(v) == <<v>>
Val(o) == o[1]

---------------------------------------------------------------------------
(* Bounds and input sets                                                   *)

MaxUserId == 2
MaxTaskId == 2
MaxTime == 1
NumProcs == 2

Procs == 1..NumProcs

Emails == {"a@x.io", "b@x.io"}
Passwords == {"secret1", "secret2"}
FullNames == {None}

\* ids no row can have: the sequences stop at MaxUserId / MaxTaskId
NoSuchUserId == MaxUserId + 1
NoSuchTaskId == MaxTaskId + 1
UserIdInputs == 1..NoSuchUserId
TaskIdInputs == 1..NoSuchTaskId

\* column widths of db.py
StatusWidth == 32
TitleWidth == 255

AllowedStatuses == {"todo", "in_progress", "done"}
\* 33 characters: one more than String(32) holds
LongStatus == "in_progress_and_waiting_on_review"

---------------------------------------------------------------------------
(* Strings the code takes apart: sequences of one-character strings        *)

Digit == <<"0", "1", "2", "3", "4", "5", "6", "7", "8", "9">>
IsDigit(c) == \E i \in 1..10 : Digit[i] = c
DigitVal(c) == (CHOOSE i \in 1..10 : Digit[i] = c) - 1

\* str(n) for n >= 0, as the f-string formats user.id
RECURSIVE ToStr(_)
ToStr(n) ==
    IF n < 10 THEN <<Digit[n + 1]>>
    ELSE ToStr(n \div 10) \o <<Digit[(n % 10) + 1]>>

\* s.startswith(p)
StartsWith(s, p) == Len(s) >= Len(p) /\ SubSeq(s, 1, Len(p)) = p

\* s.replace(p, ""): every non-overlapping occurrence of p, left to right
RECURSIVE Remove(_, _)
Remove(s, p) ==
    IF s = <<>> THEN <<>>
    ELSE IF StartsWith(s, p) THEN Remove(SubSeq(s, Len(p) + 1, Len(s)), p)
    ELSE <<Head(s)>> \o Remove(Tail(s), p)

\* s.split(c)[0]: s up to its first c
RECURSIVE SplitFirst(_, _)
SplitFirst(s, c) ==
    IF s = <<>> \/ Head(s) = c THEN <<>>
    ELSE <<Head(s)>> \o SplitFirst(Tail(s), c)

RECURSIVE ParseNat(_)
ParseNat(s) ==
    IF Len(s) = 1 THEN DigitVal(s[1])
    ELSE 10 * ParseNat(SubSeq(s, 1, Len(s) - 1)) + DigitVal(s[Len(s)])

\* int(s): None where Python raises ValueError.  An optional sign, then
\* decimal digits (surrounding whitespace and digit-group underscores, which
\* int() also accepts, are in none of the tokens below)
ParseInt(s) ==
    LET signed == s # <<>> /\ Head(s) \in {"+", "-"}
        digits == IF signed THEN Tail(s) ELSE s
    IN  IF digits = <<>> \/ \E i \in 1..Len(digits) : ~IsDigit(digits[i])
        THEN None
        ELSE IF signed /\ Head(s) = "-" THEN Some(0 - ParseNat(digits))
        ELSE Some(ParseNat(digits))

TokenPrefix ==
    <<"f", "a", "k", "e", "-", "t", "o", "k", "e", "n", "-",
      "f", "o", "r", "-", "u", "s", "e", "r", "-">>

---------------------------------------------------------------------------
(* auth.py                                                                 *)

\* hashlib.sha256(password).hexdigest(): deterministic, and taken to be
\* collision-free on the passwords tried
hash_password(password) == <<"sha256", password>>

\* faulty variant: the comparison of the hashes dropped
AcceptAnyPassword(plain_password, hashed) == TRUE

verify_password(plain_password, hashed) == hash_password(plain_password) = hashed

UserRead(u) ==
    [id |-> u.id, email |-> u.email, full_name |-> u.full_name,
     is_active |-> u.is_active]

\* select(User).where(User.email == email) ... scalar_one_or_none()
UserByEmail(us, email) == {u \in us : u.email = email}
\* select(User).where(User.id == id) ... scalar_one_or_none()
UserById(us, id) == {u \in us : u.id = id}

\* faulty variant: the users table without its unique index on email
NoUniqueIndex(us, row) == FALSE

\* users.email is unique=True: the INSERT of row into us is refused
EmailUniqueViolation(us, row) == \E u \in us : u.email = row.email

\* what resp keeps of the response res of handler op
Resp(op, res) == [op |-> op, code |-> res.code, detail |-> res.detail]

Ok(code, body) == [code |-> code, detail |-> "", body |-> body]
Err(code, detail) == [code |-> code, detail |-> detail, body |-> None]

\* signup, from db.add(new_user) on: the INSERT draws id from the sequence
\* whether or not the commit goes through
signup_commit(user_in, us, id) ==
    LET new_user == [id |-> id, email |-> user_in.email,
                     full_name |-> user_in.full_name,
                     hashed_password |-> hash_password(user_in.password),
                     is_active |-> TRUE]
    IN  IF EmailUniqueViolation(us, new_user)
        THEN [res |-> Err(400, "Email already in use."), users |-> us]
        ELSE [res |-> Ok(201, UserRead(new_user)), users |-> us \cup {new_user}]

login(login_in, us) ==
    LET found == UserByEmail(us, login_in.email)
    IN  IF found = {} \/ \E u \in found : ~verify_password(login_in.password, u.hashed_password)
        THEN Err(401, "Invalid credentials.")
        ELSE LET user == CHOOSE u \in found : TRUE
             IN  Ok(200, [access_token |-> TokenPrefix \o ToStr(user.id),
                          token_type |-> "bearer"])

get_me(token, us) ==
    IF token = None \/ Val(token) = <<>> \/ ~StartsWith(Val(token), TokenPrefix)
    THEN Err(401, "Invalid/missing token")
    ELSE LET user_id == ParseInt(SplitFirst(Remove(Val(token), TokenPrefix), ":"))
         IN  IF user_id = None THEN Err(401, "Malformed token")
             ELSE IF UserById(us, Val(user_id)) = {} THEN Err(404, "User not found.")
             ELSE Ok(200, UserRead(CHOOSE u \in UserById(us, Val(user_id)) : TRUE))

\* ids a token may carry: those of users, and some of several digits
TokenIdInputs == UserIdInputs \cup {10, 207}

SignupInputs == [email : Emails, password : Passwords, full_name : FullNames]
LoginInputs == [email : Emails, password : Passwords]
TokenInputs ==
    {None, Some(<<>>), Some(<<"a", "b", "c">>), Some(TokenPrefix),
     Some(TokenPrefix \o <<"x">>), Some(TokenPrefix \o <<"1", ":", "z">>),
     Some(TokenPrefix \o TokenPrefix \o <<"2">>), Some(TokenPrefix \o <<"-", "1">>)}
    \cup {Some(TokenPrefix \o ToStr(id)) : id \in TokenIdInputs}

\* the tokens login hands out over the users us
IssuedTokens(us) ==
    {Some(login(login_in, us).body.access_token) :
        login_in \in {l \in LoginInputs : login(l, us).code = 200}}

InFlight == {p \in Procs : pc[p] # None}

\* signup up to its first await: the explicit lookup
SignupLookup(p, user_in) ==
    /\ pc[p] = None
    /\ nextUserId + Cardinality(InFlight) <= MaxUserId
    /\ IF UserByEmail(users, user_in.email) # {}
       THEN /\ resp' = Resp("signup", Err(400, "Email already registered."))
            /\ pc' = pc
       ELSE /\ pc' = [pc EXCEPT ![p] = Some(user_in)]
            /\ resp' = resp
    /\ UNCHANGED <<users, nextUserId, tasks, nextTaskId, now, signedUp, deleted>>

\* signup from db.add to its return
SignupCommit(p) ==
    /\ pc[p] # None
    /\ LET r == signup_commit(Val(pc[p]), users, nextUserId)
       IN  /\ users' = r.users
           /\ resp' = Resp("signup", r.res)
           /\ signedUp' = IF r.res.code = 201
                           THEN signedUp \cup {[email |-> Val(pc[p]).email,
                                                password |-> Val(pc[p]).password]}
                           ELSE signedUp
    /\ nextUserId' = nextUserId + 1
    /\ pc' = [pc EXCEPT ![p] = None]
    /\ UNCHANGED <<tasks, nextTaskId, now, deleted>>

Login(login_in) ==
    /\ resp' = Resp("login", login(login_in, users))
    /\ UNCHANGED <<users, nextUserId, tasks, nextTaskId, now, pc, signedUp, deleted>>

GetMe(token) ==
    /\ resp' = Resp("get_me", get_me(token, users))
    /\ UNCHANGED <<users, nextUserId, tasks, nextTaskId, now, pc, signedUp, deleted>>

---------------------------------------------------------------------------
(* db.py: what the tasks table refuses at commit                           *)

\* String(255) title, String(32) status: a longer value is a DataError
ValueTooLong(row) == Len(row.title) > TitleWidth \/ Len(row.status) > StatusWidth

\* ForeignKey("users.id") on creator_id and, when not NULL, on assignee_id
ForeignKeyViolation(us, row) ==
    \/ UserById(us, row.creator_id) = {}
    \/ row.assignee_id # None /\ UserById(us, Val(row.assignee_id)) = {}

---------------------------------------------------------------------------
(* task.py                                                                 *)

task_to_read(task) ==
    [id |-> task.id, title |-> task.title, description |-> task.description,
     due_date |-> task.due_date, status |-> task.status,
     creator_id |-> task.creator_id, assignee_id |-> task.assignee_id,
     created_at |-> task.created_at, updated_at |-> task.updated_at]

\* select(Task).where(Task.id == task_id) ... scalar_one_or_none()
TaskById(ts, task_id) == {t \in ts : t.id = task_id}

\* faulty variant: the query with a LIMIT 1
RowsLimitOne(ts) ==
    IF ts = {} THEN <<>> ELSE <<CHOOSE r \in ts : \A o \in ts : r.id <= o.id>>

\* the rows of ts as the query returns them (here: by id)
RECURSIVE Rows(_)
Rows(ts) ==
    IF ts = {} THEN <<>>
    ELSE LET t == CHOOSE r \in ts : \A o \in ts : r.id <= o.id
         IN  <<t>> \o Rows(ts \ {t})

\* faulty variant: the id is one more than the largest id among the rows
IdAfterLastRow(ts, seq) ==
    IF ts = {} THEN 1 ELSE (CHOOSE r \in ts : \A o \in ts : o.id <= r.id).id + 1

\* tasks.id, Integer primary key: the INSERT takes the sequence's next value,
\* whatever rows ts the table holds
TaskIdDefault(ts, seq) == seq

\* creator_id = 1  # For demo only
DemoCreatorId == 1

\* task_in is a TaskCreate with its defaults filled in; id is drawn from the
\* sequence by the INSERT, t is func.now().  Only IntegrityError is caught:
\* a DataError leaves the handler as a 500
create_task(task_in, ts, us, id, t) ==
    LET new_task == [id |-> id, title |-> task_in.title,
                     description |-> task_in.description,
                     due_date |-> task_in.due_date,
                     status |-> IF task_in.status = "" THEN "todo" ELSE task_in.status,
                     creator_id |-> DemoCreatorId,
                     assignee_id |-> task_in.assignee_id,
                     created_at |-> t, updated_at |-> t]
    IN  IF ValueTooLong(new_task)
        THEN [res |-> Err(500, "Internal Server Error"), tasks |-> ts]
        ELSE IF ForeignKeyViolation(us, new_task)
        THEN [res |-> Err(400, "Could not create task: integrity error."), tasks |-> ts]
        ELSE [res |-> Ok(201, task_to_read(new_task)), tasks |-> ts \cup {new_task}]

\* if status: / is not None
StatusFilterOn(status) == status # None /\ Val(status) # ""

\* faulty variant: Task.due_date < due_before
DueStrictlyBefore(due_date, due_before) ==
    due_date # None /\ Val(due_date) < Val(due_before)

\* Task.due_date != None, Task.due_date <= due_before
DueOnOrBefore(due_date, due_before) ==
    due_date # None /\ Val(due_date) <= Val(due_before)

list_tasks(status, assignee_id, due_before, ts) ==
    LET matching ==
            {t \in ts :
                /\ StatusFilterOn(status) => t.status = Val(status)
                /\ assignee_id # None => t.assignee_id = assignee_id
                /\ due_before # None => DueOnOrBefore(t.due_date, due_before)}
        rows == Rows(matching)
    IN  Ok(200, [tasks |-> [i \in 1..Len(rows) |-> task_to_read(rows[i])],
                 total |-> Len(rows)])

get_task(task_id, ts) ==
    IF TaskById(ts, task_id) = {} THEN Err(404, "Task not found.")
    ELSE Ok(200, task_to_read(CHOOSE t \in TaskById(ts, task_id) : TRUE))

\* A TaskUpdate: each field is Unset, or Set(None), or Set(Some(v))
Unset == <<>>
Set(o) == <<o>>
UpdateFields == {"title", "description", "due_date", "status", "assignee_id"}
\* columns that are nullable=False
NotNullFields == {"title", "status"}

\* task_in.model_dump(exclude_unset=True)
model_dump(task_in) == {f \in UpdateFields : task_in[f] # Unset}

\* setattr(task, f, value) gives the attribute a value other than the loaded one
NetChange(task, f, value) ==
    IF f \in NotNullFields THEN value = None \/ Val(value) # task[f]
    ELSE value # task[f]

\* faulty variant: the column updated_at without onupdate
FlushedNoOnupdate(task, sets, t) ==
    [f \in DOMAIN task |->
        IF f \in DOMAIN sets /\ NetChange(task, f, sets[f])
        THEN (IF f \in NotNullFields THEN Val(sets[f]) ELSE sets[f])
        ELSE task[f]]

\* faulty variant: onupdate on created_at as well
FlushedTouchesCreated(task, sets, t) ==
    IF \A f \in DOMAIN sets : ~NetChange(task, f, sets[f]) THEN task
    ELSE [f \in DOMAIN task |->
            IF f \in {"updated_at", "created_at"} THEN t
            ELSE IF f \in DOMAIN sets /\ NetChange(task, f, sets[f])
                 THEN (IF f \in NotNullFields THEN Val(sets[f]) ELSE sets[f])
            ELSE task[f]]

\* the row the flush writes: the attributes set, and onupdate=func.now().
\* The unit of work emits no UPDATE (and onupdate does not run) for a row
\* none of whose attributes has a net change.
Flushed(task, sets, t) ==
    IF \A f \in DOMAIN sets : ~NetChange(task, f, sets[f]) THEN task
    ELSE [f \in DOMAIN task |->
            IF f = "updated_at" THEN t
            ELSE IF f \in DOMAIN sets /\ NetChange(task, f, sets[f])
                 THEN (IF f \in NotNullFields THEN Val(sets[f]) ELSE sets[f])
            ELSE task[f]]

\* the UPDATE of task with sets is refused: NOT NULL, width or foreign key
UpdateRefused(task, sets, us) ==
    \/ \E f \in DOMAIN sets \cap NotNullFields : sets[f] = None
    \/ /\ \E f \in DOMAIN sets : NetChange(task, f, sets[f])
       /\ \/ ValueTooLong(Flushed(task, sets, 0))
          \/ ForeignKeyViolation(us, Flushed(task, sets, 0))

update_task(task_id, task_in, ts, us, t) ==
    IF TaskById(ts, task_id) = {} THEN [res |-> Err(404, "Task not found."), tasks |-> ts]
    ELSE LET task == CHOOSE r \in TaskById(ts, task_id) : TRUE
             sets == [f \in model_dump(task_in) |-> Val(task_in[f])]
         IN  IF UpdateRefused(task, sets, us)
             THEN [res |-> Err(400, "Could not update task."), tasks |-> ts]
             ELSE [res |-> Ok(200, task_to_read(Flushed(task, sets, t))),
                   tasks |-> (ts \ {task}) \cup {Flushed(task, sets, t)}]

delete_task(task_id, ts) ==
    IF TaskById(ts, task_id) = {} THEN [res |-> Err(404, "Task not found"), tasks |-> ts]
    ELSE [res |-> Ok(200, [message |-> "Task deleted."]),
          tasks |-> ts \ TaskById(ts, task_id)]

\* faulty variant: the assignee is not looked up
assign_task_unchecked(task_id, assignee_id, ts, us, t) ==
    IF TaskById(ts, task_id) = {} THEN [res |-> Err(404, "Task not found."), tasks |-> ts]
    ELSE LET task == CHOOSE r \in TaskById(ts, task_id) : TRUE
             sets == [f \in {"assignee_id"} |-> Some(assignee_id)]
         IN  [res |-> Ok(200, task_to_read(Flushed(task, sets, t))),
              tasks |-> (ts \ {task}) \cup {Flushed(task, sets, t)}]

assign_task(task_id, assignee_id, ts, us, t) ==
    IF TaskById(ts, task_id) = {} THEN [res |-> Err(404, "Task not found."), tasks |-> ts]
    ELSE IF UserById(us, assignee_id) = {}
    THEN [res |-> Err(404, "Assignee user not found."), tasks |-> ts]
    ELSE LET task == CHOOSE r \in TaskById(ts, task_id) : TRUE
             sets == [f \in {"assignee_id"} |-> Some(assignee_id)]
         IN  [res |-> Ok(200, task_to_read(Flushed(task, sets, t))),
              tasks |-> (ts \ {task}) \cup {Flushed(task, sets, t)}]

\* faulty variant: new_status is not validated
update_status_unchecked(task_id, new_status, ts, t) ==
    IF TaskById(ts, task_id) = {}
    THEN [res |-> Err(404, "Task not found."), tasks |-> ts]
    ELSE LET task == CHOOSE r \in TaskById(ts, task_id) : TRUE
             sets == [f \in {"status"} |-> Some(new_status)]
         IN  [res |-> Ok(200, task_to_read(Flushed(task, sets, t))),
              tasks |-> (ts \ {task}) \cup {Flushed(task, sets, t)}]

update_status(task_id, new_status, ts, t) ==
    IF new_status \notin AllowedStatuses
    THEN [res |-> Err(400, "Invalid status value."), tasks |-> ts]
    ELSE IF TaskById(ts, task_id) = {}
    THEN [res |-> Err(404, "Task not found."), tasks |-> ts]
    ELSE LET task == CHOOSE r \in TaskById(ts, task_id) : TRUE
             sets == [f \in {"status"} |-> Some(new_status)]
         IN  [res |-> Ok(200, task_to_read(Flushed(task, sets, t))),
              tasks |-> (ts \ {task}) \cup {Flushed(task, sets, t)}]

(* Inputs *)

TaskCreate(title, description, due_date, status, assignee_id) ==
    [title |-> title, description |-> description, due_date |-> due_date,
     status |-> status, assignee_id |-> assignee_id]

CreateInputs ==
    {TaskCreate("t1", None, None, "todo", None),
     TaskCreate("t1", None, Some(1), "done", Some(1)),
     TaskCreate("t1", None, None, "archived", None),
     TaskCreate("t1", None, None, LongStatus, None)}

TaskUpdate(title, description, due_date, status, assignee_id) ==
    [title |-> title, description |-> description, due_date |-> due_date,
     status |-> status, assignee_id |-> assignee_id]

UpdateInputs ==
    {TaskUpdate(Unset, Unset, Unset, Unset, Unset),
     TaskUpdate(Set(Some("t2")), Set(Some("d1")), Set(Some(2)), Unset, Unset),
     TaskUpdate(Unset, Set(None), Unset, Unset, Unset),
     TaskUpdate(Unset, Unset, Unset, Set(Some("archived")), Unset),
     TaskUpdate(Unset, Unset, Unset, Set(None), Unset),
     TaskUpdate(Unset, Unset, Unset, Unset, Set(Some(NoSuchUserId)))}

AssigneeInputs == {1, NoSuchUserId}
NewStatusInputs == {"done", "archived", "", LongStatus}

StatusFilters == {None, Some(""), Some("done")}
AssigneeFilters == {None, Some(1)}
DueBeforeFilters == {None, Some(1)}

\* the signups tried beside the task handlers
TaskUserInputs == {[email |-> "a@x.io", password |-> "secret1", full_name |-> None]}

(* Handlers *)

CreateTask(task_in) ==
    /\ nextTaskId <= MaxTaskId
    /\ LET r == create_task(task_in, tasks, users, TaskIdDefault(tasks, nextTaskId), now)
       IN  /\ tasks' = r.tasks
           /\ resp' = Resp("create_task", r.res)
    /\ nextTaskId' = nextTaskId + 1
    /\ UNCHANGED <<users, nextUserId, now, pc, signedUp, deleted>>

ListTasks(status, assignee_id, due_before) ==
    /\ resp' = Resp("list_tasks", list_tasks(status, assignee_id, due_before, tasks))
    /\ UNCHANGED <<users, nextUserId, tasks, nextTaskId, now, pc, signedUp, deleted>>

GetTask(task_id) ==
    /\ resp' = Resp("get_task", get_task(task_id, tasks))
    /\ UNCHANGED <<users, nextUserId, tasks, nextTaskId, now, pc, signedUp, deleted>>

UpdateTask(task_id, task_in) ==
    /\ LET r == update_task(task_id, task_in, tasks, users, now)
       IN  /\ tasks' = r.tasks
           /\ resp' = Resp("update_task", r.res)
    /\ UNCHANGED <<users, nextUserId, nextTaskId, now, pc, signedUp, deleted>>

DeleteTask(task_id) ==
    /\ LET r == delete_task(task_id, tasks)
       IN  /\ tasks' = r.tasks
           /\ resp' = Resp("delete_task", r.res)
           /\ deleted' = IF r.res.code = 200 THEN deleted \cup {task_id} ELSE deleted
    /\ UNCHANGED <<users, nextUserId, nextTaskId, now, pc, signedUp>>

AssignTask(task_id, assignee_id) ==
    /\ LET r == assign_task(task_id, assignee_id, tasks, users, now)
       IN  /\ tasks' = r.tasks
           /\ resp' = Resp("assign_task", r.res)
    /\ UNCHANGED <<users, nextUserId, nextTaskId, now, pc, signedUp, deleted>>

UpdateStatus(task_id, new_status) ==
    /\ LET r == update_status(task_id, new_status, tasks, now)
       IN  /\ tasks' = r.tasks
           /\ resp' = Resp("update_status", r.res)
    /\ UNCHANGED <<users, nextUserId, nextTaskId, now, pc, signedUp, deleted>>

\* time passes between requests
Tick ==
    /\ now < MaxTime
    /\ now' = now + 1
    /\ UNCHANGED <<users, nextUserId, tasks, nextTaskId, pc, resp, signedUp, deleted>>

---------------------------------------------------------------------------

Init ==
    /\ users = {}
    /\ nextUserId = 1
    /\ tasks = {}
    /\ nextTaskId = 1
    /\ now = 0
    /\ pc = [p \in Procs |-> None]
    /\ resp = Resp("none", Ok(0, None))
    /\ signedUp = {}
    /\ deleted = {}

\* the auth handlers, signups running concurrently
NextAuth ==
    \/ \E p \in Procs, user_in \in SignupInputs : SignupLookup(p, user_in)
    \/ \E p \in Procs : SignupCommit(p)
    \/ \E login_in \in LoginInputs : Login(login_in)
    \/ \E token \in TokenInputs \cup IssuedTokens(users) : GetMe(token)

\* the task handlers, over the users that signups (one at a time) create
Next ==
    \/ \E user_in \in TaskUserInputs : SignupLookup(1, user_in)
    \/ SignupCommit(1)
    \/ \E task_in \in CreateInputs : CreateTask(task_in)
    \/ \E status \in StatusFilters, assignee_id \in AssigneeFilters,
          due_before \in DueBeforeFilters : ListTasks(status, assignee_id, due_before)
    \/ \E task_id \in TaskIdInputs : GetTask(task_id)
    \/ \E task_id \in TaskIdInputs, task_in \in UpdateInputs : UpdateTask(task_id, task_in)
    \/ \E task_id \in TaskIdInputs : DeleteTask(task_id)
    \/ \E task_id \in TaskIdInputs, assignee_id \in AssigneeInputs :
          AssignTask(task_id, assignee_id)
    \/ \E task_id \in TaskIdInputs, new_status \in NewStatusInputs :
          UpdateStatus(task_id, new_status)
    \/ Tick

SpecAuth == Init /\ [][NextAuth]_vars

Spec == Init /\ [][Next]_vars

---------------------------------------------------------------------------
(* Claims about the auth handlers, under SpecAuth                          *)

EmailStored(us, email) == \E u \in us : u.email = email

C2_LoginTokenRoundTrip ==
    \A login_in \in LoginInputs :
        LET r == login(login_in, users)
        IN  IF login_in \in signedUp
            THEN /\ r.code = 200
                 /\ LET me == get_me(Some(r.body.access_token), users)
                    IN  /\ me.code = 200
                        /\ me.body.email = login_in.email
                        /\ \E u \in users : u.email = login_in.email /\ u.id = me.body.id
            ELSE r.code = 401

\* two users are stored, a login with the right password was followed by
\* get_me on its token, and a login with another user's password would fail
C2_Witness ==
    /\ Cardinality(users) = 2
    /\ resp = [op |-> "get_me", code |-> 200, detail |-> ""]
    /\ \E l \in signedUp, m \in signedUp :
          l.email # m.email /\ l.password # m.password

---------------------------------------------------------------------------
(* Claims about the task handlers, under Spec                              *)

Range(seq) == {seq[i] : i \in 1..Len(seq)}
\* what ListTasks with no filter returns
ListAll(ts) == list_tasks(None, None, None, ts).body
Row(ts, task_id) == CHOOSE t \in ts : t.id = task_id

\* C3 as stated: every CreateTask call adds one task to what ListTasks()
\* returns
C3_OnePerCall ==
    [][resp'.op = "create_task" =>
        \A task_in \in CreateInputs :
            CreateTask(task_in) => ListAll(tasks').total = ListAll(tasks).total + 1
      ]_vars

\* C3, amended: ListTasks() returns nothing on the empty table; a CreateTask
\* call that returns 201 adds exactly the task it returns (a new one) to what
\* ListTasks() returns, and total grows by one; a CreateTask call that fails
\* leaves it as it was.  So after any sequence of CreateTask calls ListTasks()
\* returns exactly the tasks of the calls that succeeded, one for each.
C3_ListAfterCreates ==
    /\ Range(ListAll(tasks).tasks) = {} /\ ListAll(tasks).total = 0
    /\ [][resp'.op = "create_task" =>
          \A task_in \in CreateInputs :
            CreateTask(task_in) =>
                LET r == create_task(task_in, tasks, users, TaskIdDefault(tasks, nextTaskId), now)
                    before == ListAll(tasks)
                    after == ListAll(tasks')
                IN  IF resp'.code = 201
                    THEN /\ r.res.body \notin Range(before.tasks)
                         /\ Range(after.tasks) = Range(before.tasks) \cup {r.res.body}
                         /\ after.total = before.total + 1
                         /\ after.total = Cardinality(Range(after.tasks))
                    ELSE after = before
         ]_vars

\* CreateTask calls have succeeded and failed, and ListTasks ran on two tasks
C3_Witness ==
    /\ resp = [op |-> "list_tasks", code |-> 200, detail |-> ""]
    /\ Cardinality(tasks) = 2
    /\ nextTaskId > MaxTaskId

\* the stored tasks that satisfy the filters; the status filter counts when
\* statusOn
Matching(ts, status, assignee_id, due_before, statusOn) ==
    {t \in ts :
        /\ statusOn => t.status = Val(status)
        /\ assignee_id # None => t.assignee_id = assignee_id
        /\ due_before # None =>
              t.due_date # None /\ Val(t.due_date) <= Val(due_before)}

ListIs(status, assignee_id, due_before, statusOn) ==
    LET r == list_tasks(status, assignee_id, due_before, tasks)
        want == Matching(tasks, status, assignee_id, due_before, statusOn)
    IN  /\ r.code = 200
        /\ Range(r.body.tasks) = {task_to_read(t) : t \in want}
        /\ r.body.total = Cardinality(want)

C5_InvalidStatusRejected ==
    [][resp'.op = "update_status" =>
        \A task_id \in TaskIdInputs, new_status \in NewStatusInputs :
            (new_status \notin {"todo", "in_progress", "done"}
             /\ UpdateStatus(task_id, new_status))
            => (resp'.code = 400 /\ tasks' = tasks)
      ]_vars

\* UpdateStatus refused a status while tasks were stored
C5_Witness ==
    /\ resp = [op |-> "update_status", code |-> 400, detail |-> "Invalid status value."]
    /\ tasks # {}

\* C6: AssignTask to an assignee_id no user has returns 404 and changes no
\* task.
C6_UnknownAssigneeRejected ==
    [][resp'.op = "assign_task" =>
        \A task_id \in TaskIdInputs, assignee_id \in AssigneeInputs :
            ((~\E u \in users : u.id = assignee_id)
             /\ AssignTask(task_id, assignee_id))
            => (resp'.code = 404 /\ tasks' = tasks)
      ]_vars

\* AssignTask found the task but not the assignee
C6_Witness ==
    /\ resp = [op |-> "assign_task", code |-> 404, detail |-> "Assignee user not found."]
    /\ tasks # {}

\* C7: GetTask of an id that a DeleteTask call removed returns 404, in every
\* later state.
C7_DeletedStaysGone ==
    \A task_id \in deleted : get_task(task_id, tasks).code = 404

\* GetTask returned 404 after a task was deleted and a later one created
C7_Witness ==
    /\ resp = [op |-> "get_task", code |-> 404, detail |-> "Task not found."]
    /\ \E task_id \in deleted : \E t \in tasks : t.id > task_id

\* C8 as stated: the status of every stored task is todo, in_progress or done
C8_StatusAllowed ==
    \A t \in tasks : t.status \in {"todo", "in_progress", "done"}

\* C9: an UpdateTask call that returns 200 leaves every field its payload
\* does not set as it was, leaves id, creator_id and created_at as they
\* were, and changes no other task.
C9_UpdateFrame ==
    [][resp'.op = "update_task" /\ resp'.code = 200 =>
        \A task_id \in TaskIdInputs, task_in \in UpdateInputs :
            UpdateTask(task_id, task_in) =>
                \E old \in tasks, new \in tasks' :
                    /\ old.id = task_id /\ new.id = task_id
                    /\ tasks' \ {new} = tasks \ {old}
                    /\ \A f \in UpdateFields : (task_in[f] = Unset) => (new[f] = old[f])
                    /\ new.creator_id = old.creator_id
                    /\ new.created_at = old.created_at
      ]_vars

\* an UpdateTask call changed one of two tasks, some time after it was made
C9_Witness ==
    /\ resp = [op |-> "update_task", code |-> 200, detail |-> ""]
    /\ Cardinality(tasks) = 2
    /\ \E t \in tasks : t.title = "t2" /\ t.updated_at > t.created_at

MutatingOps == {"update_task", "assign_task", "update_status"}

\* a call of UpdateTask, AssignTask or UpdateStatus on task_id
MutatingCall(task_id) ==
    \/ \E task_in \in UpdateInputs : UpdateTask(task_id, task_in)
    \/ \E assignee_id \in AssigneeInputs : AssignTask(task_id, assignee_id)
    \/ \E new_status \in NewStatusInputs : UpdateStatus(task_id, new_status)

\* C10 as stated: every UpdateTask, AssignTask or UpdateStatus call that
\* returns 200 sets the task's updated_at to the time of the call and leaves
\* created_at as it was
C10_AlwaysRefreshed ==
    [][resp'.op \in MutatingOps /\ resp'.code = 200 =>
        \A task_id \in TaskIdInputs :
            MutatingCall(task_id) =>
                /\ Row(tasks', task_id).updated_at = now
                /\ Row(tasks', task_id).created_at = Row(tasks, task_id).created_at
      ]_vars

\* C10, amended: an UpdateTask, AssignTask or UpdateStatus call that returns
\* 200 and changes the value of a field sets the task's updated_at to the
\* time of the call; one that changes no value (an empty payload, values the
\* task already has) leaves updated_at as it was; created_at is as it was in
\* both cases.
C10_RefreshedOnChange ==
    [][resp'.op \in MutatingOps /\ resp'.code = 200 =>
        \A task_id \in TaskIdInputs :
            MutatingCall(task_id) =>
                LET old == Row(tasks, task_id)
                    new == Row(tasks', task_id)
                IN  /\ new.created_at = old.created_at
                    /\ new.updated_at =
                          IF \E f \in UpdateFields : new[f] # old[f]
                          THEN now ELSE old.updated_at
      ]_vars

\* a task was changed some time after it was made
C10_Witness ==
    /\ resp.op \in MutatingOps
    /\ resp.code = 200
    /\ \E t \in tasks : t.updated_at = now /\ t.created_at < now

\* the handlers that commit a change of the tasks table
TaskWriteOps == MutatingOps \cup {"create_task", "delete_task"}

\* the errors a handler raises before it reaches its commit: the task or
\* the assignee is not found, new_status is not an allowed value
RaisedBeforeCommit ==
    {"Task not found.", "Task not found", "Assignee user not found.",
     "Invalid status value."}

\* a failed call of a committing handler
CommitFailed(r) ==
    /\ r.op \in TaskWriteOps
    /\ r.code \notin {200, 201}
    /\ r.detail \notin RaisedBeforeCommit

\* C11 as stated: every CreateTask, UpdateTask, DeleteTask, AssignTask or
\* UpdateStatus call whose commit raises answers 400, not the storage
\* exception, and leaves the stored tasks as they were before the call
C11_CommitFailureIsBadRequest ==
    [][CommitFailed(resp') => (resp'.code = 400 /\ tasks' = tasks)]_vars

====
